---- MODULE Spec2Model ----
(***************************************************************************)
(* Bridge Financing Calculator (src/app.py).                               *)
(*                                                                         *)
(* calculate_bridge_financing is modelled statement by statement: every    *)
(* call has an activation record (its parameters, its locals, its program  *)
(* position), and one action per group of source lines moves it on.  The   *)
(* Streamlit script around it (the number_input widgets, the guard on      *)
(* invoice_amount, the dashboard and the st.info message) is the process   *)
(* "ui".  Python floats are modelled as exact rationals n/d in lowest      *)
(* terms; a division by zero yields the value ZeroDivisionError, which     *)
(* ends the call in the position "raised".                                 *)
(***************************************************************************)
EXTENDS Integers, FiniteSets, Sequences, TLC

VARIABLES
    glob,     \* module-level names bound by the widgets (lines 288-301)
    frames,   \* activation record of calculate_bridge_financing, per caller
    script,   \* position of the Streamlit script run
    view      \* what the page shows below the inputs

vars == <<glob, frames, script, view>>

----------------------------------------------------------------------------
(* Bounds of the model *)

MaxInvoiceK == 2
MaxDaysK == 2

----------------------------------------------------------------------------
(* Float arithmetic, as exact rationals *)

Abs(x) == IF x < 0 THEN -x ELSE x

RECURSIVE GCD(_, _)
GCD(a, b) == IF b = 0 THEN a ELSE GCD(b, a % b)

ZeroDivisionError == [n |-> 1, d |-> 0]

Unbound == [n |-> 0, d |-> 0]

IsNumber(x) == x.d > 0

Norm(n, d) ==
    LET s == IF d < 0 THEN -1 ELSE 1
        g == GCD(Abs(n), Abs(d))
    IN  [n |-> (s * n) \div g, d |-> (s * d) \div g]

Float(i) == [n |-> i, d |-> 1]

RAdd(a, b) ==
    IF ~IsNumber(a) \/ ~IsNumber(b) THEN ZeroDivisionError
    ELSE Norm(a.n * b.d + b.n * a.d, a.d * b.d)

RSub(a, b) ==
    IF ~IsNumber(a) \/ ~IsNumber(b) THEN ZeroDivisionError
    ELSE Norm(a.n * b.d - b.n * a.d, a.d * b.d)

RMul(a, b) ==
    IF ~IsNumber(a) \/ ~IsNumber(b) THEN ZeroDivisionError
    ELSE LET g1 == GCD(Abs(a.n), b.d)
             g2 == GCD(Abs(b.n), a.d)
         IN  [n |-> (a.n \div g1) * (b.n \div g2),
              d |-> (a.d \div g2) * (b.d \div g1)]

RDiv(a, b) ==
    IF ~IsNumber(a) \/ ~IsNumber(b) \/ b.n = 0 THEN ZeroDivisionError
    ELSE RMul(a, Norm(b.d, b.n))

RLess(a, b) == a.n * b.d < b.n * a.d

RGreater(a, b) == RLess(b, a)

----------------------------------------------------------------------------
(* calculate_bridge_financing: parameters, locals, statements *)

Omitted == [n |-> 0, d |-> 0]

NoResult == << >>

Callers == {"ui", "a", "b"}

\* The positional arguments of the call at lines 309-312, from the module-level names.
CallArgs(g) ==
    [annual_interest_rate_pct |-> g.annual_interest_rate_pct,
     invoice_amount           |-> g.invoice_amount,
     days_outstanding         |-> g.days_outstanding,
     margin_pct               |-> g.margin_pct,
     advance_rate_pct         |-> g.advance_rate_pct,
     arrangement_fee_pct      |-> g.arrangement_fee_pct,
     fixed_fee                |-> g.fixed_fee]

\* Parameter binding: an omitted optional argument takes its default.
Params(call) ==
    [call EXCEPT
        !.advance_rate_pct    = IF @ = Omitted THEN Float(80) ELSE @,
        !.arrangement_fee_pct = IF @ = Omitted THEN Float(0) ELSE @,
        !.fixed_fee           = IF @ = Omitted THEN Float(0) ELSE @]

IdleFrame ==
    [pc |-> "idle",
     call |-> [annual_interest_rate_pct |-> Unbound, invoice_amount |-> Unbound,
               days_outstanding |-> 0, margin_pct |-> Unbound,
               advance_rate_pct |-> Unbound, arrangement_fee_pct |-> Unbound,
               fixed_fee |-> Unbound],
     args |-> [annual_interest_rate_pct |-> Unbound, invoice_amount |-> Unbound,
               days_outstanding |-> 0, margin_pct |-> Unbound,
               advance_rate_pct |-> Unbound, arrangement_fee_pct |-> Unbound,
               fixed_fee |-> Unbound],
     annual_rate |-> Unbound, margin_rate |-> Unbound, advance_rate |-> Unbound,
     arrangement_fee_rate |-> Unbound,
     principal_borrowed |-> Unbound, gross_margin_value |-> Unbound,
     interest_cost |-> Unbound,
     arrangement_fee_value |-> Unbound, total_fees |-> Unbound,
     total_financing_cost |-> Unbound, net_margin_after_financing |-> Unbound,
     margin_eaten_value |-> Unbound, margin_eaten_pct_of_margin |-> Unbound,
     financing_cost_pct_of_invoice |-> Unbound,
     effective_annualized_cost_pct |-> Unbound,
     result |-> NoResult]

\* A call: a fresh activation record with the parameters bound.
Bind(call) == [IdleFrame EXCEPT !.pc = "L19", !.call = call, !.args = Params(call)]

\* Lines 19-22: percent to fraction.
PctToRate(pct) == RDiv(pct, Float(100))

\* Lines 24-25.
PrincipalBorrowed(invoice_amount, advance_rate) == RMul(invoice_amount, advance_rate)

GrossMarginValue(invoice_amount, margin_rate) == RMul(invoice_amount, margin_rate)

\* Line 27: no test of days_outstanding.
InterestCostFloorDiv(principal_borrowed, annual_rate, days_outstanding) ==
    RMul(RMul(principal_borrowed, annual_rate), Float(days_outstanding \div 365))

InterestCost360(principal_borrowed, annual_rate, days_outstanding) ==
    RMul(RMul(principal_borrowed, annual_rate),
         RDiv(Float(days_outstanding), Float(360)))

InterestCost(principal_borrowed, annual_rate, days_outstanding) ==
    RMul(RMul(principal_borrowed, annual_rate),
         RDiv(Float(days_outstanding), Float(365)))

\* Lines 29-30.
ArrangementFeeValue(invoice_amount, arrangement_fee_rate) ==
    RMul(invoice_amount, arrangement_fee_rate)

TotalFees(arrangement_fee_value, fixed_fee) == RAdd(arrangement_fee_value, fixed_fee)

\* Lines 32-33.
TotalFinancingCost(interest_cost, total_fees) == RAdd(interest_cost, total_fees)

NetMarginClamped(gross_margin_value, total_financing_cost) ==
    IF RLess(gross_margin_value, total_financing_cost) THEN Float(0)
    ELSE RSub(gross_margin_value, total_financing_cost)

NetMarginAfterFinancing(gross_margin_value, total_financing_cost) ==
    RSub(gross_margin_value, total_financing_cost)

\* Lines 35-38.
MarginEatenPctUnguarded(margin_eaten_value, gross_margin_value) ==
    RMul(RDiv(margin_eaten_value, gross_margin_value), Float(100))

MarginEatenFraction(margin_eaten_value, gross_margin_value) ==
    IF RGreater(gross_margin_value, Float(0))
    THEN RDiv(margin_eaten_value, gross_margin_value)
    ELSE Float(0)

MarginEatenPctOfMargin(margin_eaten_value, gross_margin_value) ==
    IF RGreater(gross_margin_value, Float(0))
    THEN RMul(RDiv(margin_eaten_value, gross_margin_value), Float(100))
    ELSE Float(0)

\* Line 40: the division by invoice_amount is not guarded.
FinancingCostPctOfInvoice(total_financing_cost, invoice_amount) ==
    RMul(RDiv(total_financing_cost, invoice_amount), Float(100))

\* Lines 42-45.
EffectiveAnnualizedNonNegative(financing_cost_pct_of_invoice, days_outstanding) ==
    IF days_outstanding >= 0
    THEN RMul(financing_cost_pct_of_invoice,
              RDiv(Float(365), Float(days_outstanding)))
    ELSE Float(0)

EffectiveAnnualizedCostPct(financing_cost_pct_of_invoice, days_outstanding) ==
    IF days_outstanding > 0
    THEN RMul(financing_cost_pct_of_invoice,
              RDiv(Float(365), Float(days_outstanding)))
    ELSE Float(0)

\* Lines 47-65: the returned dict.
ReturnValueRateEcho(f) ==
    [invoice_amount                |-> f.args.invoice_amount,
     annual_interest_rate_pct      |-> f.annual_rate,
     days_outstanding              |-> f.args.days_outstanding,
     margin_pct                    |-> f.args.margin_pct,
     advance_rate_pct              |-> f.args.advance_rate_pct,
     arrangement_fee_pct           |-> f.args.arrangement_fee_pct,
     fixed_fee                     |-> f.args.fixed_fee,
     principal_borrowed            |-> f.principal_borrowed,
     gross_margin_value            |-> f.gross_margin_value,
     interest_cost                 |-> f.interest_cost,
     total_fees                    |-> f.total_fees,
     total_financing_cost          |-> f.total_financing_cost,
     net_margin_after_financing    |-> f.net_margin_after_financing,
     margin_eaten_value            |-> f.margin_eaten_value,
     margin_eaten_pct_of_margin    |-> f.margin_eaten_pct_of_margin,
     financing_cost_pct_of_invoice |-> f.financing_cost_pct_of_invoice,
     effective_annualized_cost_pct |-> f.effective_annualized_cost_pct]

ReturnValue(f) ==
    [invoice_amount                |-> f.args.invoice_amount,
     annual_interest_rate_pct      |-> f.args.annual_interest_rate_pct,
     days_outstanding              |-> f.args.days_outstanding,
     margin_pct                    |-> f.args.margin_pct,
     advance_rate_pct              |-> f.args.advance_rate_pct,
     arrangement_fee_pct           |-> f.args.arrangement_fee_pct,
     fixed_fee                     |-> f.args.fixed_fee,
     principal_borrowed            |-> f.principal_borrowed,
     gross_margin_value            |-> f.gross_margin_value,
     interest_cost                 |-> f.interest_cost,
     total_fees                    |-> f.total_fees,
     total_financing_cost          |-> f.total_financing_cost,
     net_margin_after_financing    |-> f.net_margin_after_financing,
     margin_eaten_value            |-> f.margin_eaten_value,
     margin_eaten_pct_of_margin    |-> f.margin_eaten_pct_of_margin,
     financing_cost_pct_of_invoice |-> f.financing_cost_pct_of_invoice,
     effective_annualized_cost_pct |-> f.effective_annualized_cost_pct]

\* An exception leaves the function: no later statement runs, nothing is returned.
Raise(f) == [f EXCEPT !.pc = "raised"]

\* The statements, each on the activation record f with the module-level names g
\* in scope (the function body names only its parameters and locals).
ExecRates(f, g) ==
    [f EXCEPT !.pc = "L24",
              !.annual_rate = PctToRate(f.args.annual_interest_rate_pct),
              !.margin_rate = PctToRate(f.args.margin_pct),
              !.advance_rate = PctToRate(f.args.advance_rate_pct),
              !.arrangement_fee_rate = PctToRate(f.args.arrangement_fee_pct)]

ExecBase(f, g) ==
    [f EXCEPT !.pc = "L27",
              !.principal_borrowed =
                  PrincipalBorrowed(f.args.invoice_amount, f.advance_rate),
              !.gross_margin_value =
                  GrossMarginValue(f.args.invoice_amount, f.margin_rate)]

ExecInterest(f, g) ==
    [f EXCEPT !.pc = "L29",
              !.interest_cost =
                  InterestCost(f.principal_borrowed, f.annual_rate,
                               f.args.days_outstanding)]

ExecFeesGlobalFee(f, g) ==
    LET fee == ArrangementFeeValue(f.args.invoice_amount, f.arrangement_fee_rate)
    IN  [f EXCEPT !.pc = "L32",
                  !.arrangement_fee_value = fee,
                  !.total_fees = TotalFees(fee, g.fixed_fee)]

ExecFees(f, g) ==
    LET fee == ArrangementFeeValue(f.args.invoice_amount, f.arrangement_fee_rate)
    IN  [f EXCEPT !.pc = "L32",
                  !.arrangement_fee_value = fee,
                  !.total_fees = TotalFees(fee, f.args.fixed_fee)]

ExecTotals(f, g) ==
    LET total == TotalFinancingCost(f.interest_cost, f.total_fees)
    IN  [f EXCEPT !.pc = "L35",
                  !.total_financing_cost = total,
                  !.net_margin_after_financing =
                      NetMarginAfterFinancing(f.gross_margin_value, total)]

ExecMarginEaten(f, g) ==
    LET eaten == f.total_financing_cost
        pct   == MarginEatenPctOfMargin(eaten, f.gross_margin_value)
    IN  IF pct = ZeroDivisionError
        THEN Raise([f EXCEPT !.margin_eaten_value = eaten])
        ELSE [f EXCEPT !.pc = "L40",
                       !.margin_eaten_value = eaten,
                       !.margin_eaten_pct_of_margin = pct]

ExecCostPct(f, g) ==
    LET pct == FinancingCostPctOfInvoice(f.total_financing_cost,
                                         f.args.invoice_amount)
    IN  IF pct = ZeroDivisionError
        THEN Raise(f)
        ELSE [f EXCEPT !.pc = "L42", !.financing_cost_pct_of_invoice = pct]

ExecAnnualized(f, g) ==
    LET eff == EffectiveAnnualizedCostPct(f.financing_cost_pct_of_invoice,
                                          f.args.days_outstanding)
    IN  IF eff = ZeroDivisionError
        THEN Raise(f)
        ELSE [f EXCEPT !.pc = "L47", !.effective_annualized_cost_pct = eff]

ExecReturn(f, g) == [f EXCEPT !.pc = "returned", !.result = ReturnValue(f)]

\* One statement group of the call, by position.
Exec(f, g) ==
    CASE f.pc = "L19" -> ExecRates(f, g)
      [] f.pc = "L24" -> ExecBase(f, g)
      [] f.pc = "L27" -> ExecInterest(f, g)
      [] f.pc = "L29" -> ExecFees(f, g)
      [] f.pc = "L32" -> ExecTotals(f, g)
      [] f.pc = "L35" -> ExecMarginEaten(f, g)
      [] f.pc = "L40" -> ExecCostPct(f, g)
      [] f.pc = "L42" -> ExecAnnualized(f, g)
      [] f.pc = "L47" -> ExecReturn(f, g)
      [] OTHER -> f

Finished(f) == f.pc \in {"idle", "returned", "raised"}

\* A whole call, run alone from entry to return or raise.
RECURSIVE RunFrom(_, _)
RunFrom(f, g) == IF Finished(f) THEN f ELSE RunFrom(Exec(f, g), g)

Run(call, g) == RunFrom(Bind(call), g)

----------------------------------------------------------------------------
(* Inputs *)

InvoiceAmounts == {Float(k * 5000) : k \in 0..MaxInvoiceK}

DayCounts == {k * 30 : k \in (-MaxDaysK)..MaxDaysK} \cup {1}

MarginPcts == {Float(0), Float(1), Float(25)}

InterestRatePcts == {Float(0), Float(18)}

AdvanceRatePcts == {Float(0), Float(80), Float(100)}

ArrangementFeePcts == {Float(0), Float(1)}

FixedFees == {Float(0), Float(100)}

\* st.number_input: the values a widget can hand to the script, within its
\* min_value and max_value (lines 288-301).
NumberInput(name) ==
    CASE name = "invoice_amount" ->
             {v \in InvoiceAmounts : ~RLess(v, Float(0))}
      [] name = "days_outstanding" ->
             {v \in DayCounts : v >= 1}
      [] name = "margin_pct" ->
             {v \in MarginPcts : ~RLess(v, Float(0))}
      [] name = "advance_rate_pct" ->
             {v \in AdvanceRatePcts : ~RLess(v, Float(0)) /\ ~RLess(Float(100), v)}
      [] name = "annual_interest_rate_pct" ->
             {v \in InterestRatePcts : ~RLess(v, Float(0))}
      [] name = "arrangement_fee_pct" ->
             {v \in ArrangementFeePcts : ~RLess(v, Float(0))}
      [] name = "fixed_fee" ->
             {v \in FixedFees : ~RLess(v, Float(0))}

WidgetNames ==
    {"invoice_amount", "days_outstanding", "margin_pct", "advance_rate_pct",
     "annual_interest_rate_pct", "arrangement_fee_pct", "fixed_fee"}

\* The widgets' value= arguments: what the first run of the script sees.
WidgetDefaults ==
    [invoice_amount           |-> Float(10000),
     days_outstanding         |-> 60,
     margin_pct               |-> Float(25),
     advance_rate_pct         |-> Float(80),
     annual_interest_rate_pct |-> Float(18),
     arrangement_fee_pct      |-> Float(1),
     fixed_fee                |-> Float(0)]

\* Calls of the function by any caller: three optional arguments may be omitted.
DirectCalls ==
    [annual_interest_rate_pct : InterestRatePcts,
     invoice_amount           : InvoiceAmounts,
     days_outstanding         : DayCounts,
     margin_pct               : MarginPcts,
     advance_rate_pct         : AdvanceRatePcts \cup {Omitted},
     arrangement_fee_pct      : ArrangementFeePcts \cup {Omitted},
     fixed_fee                : FixedFees \cup {Omitted}]

\* The calls two concurrent callers make.
PairCalls ==
    {call \in DirectCalls :
        /\ call.annual_interest_rate_pct = Float(18)
        /\ call.invoice_amount \in {Float(0), Float(10000)}
        /\ call.days_outstanding \in {30, 60}
        /\ call.margin_pct = Float(25)
        /\ call.advance_rate_pct = Omitted
        /\ call.arrangement_fee_pct = Float(1)}

----------------------------------------------------------------------------
(* State and actions *)

Blank == [kind |-> "blank", result |-> NoResult]

Info == [kind |-> "info", result |-> NoResult]

Dashboard(result) == [kind |-> "dashboard", result |-> result]

Init ==
    /\ glob = WidgetDefaults
    /\ frames = [c \in Callers |-> IdleFrame]
    /\ script = "L308"
    /\ view = Blank

\* Line 308.
InvoiceGuardNonNegative(g) == ~RLess(g.invoice_amount, Float(0))

InvoiceGuard(g) == RGreater(g.invoice_amount, Float(0))

\* The user changes one widget: Streamlit reruns the script from the top, the
\* page below the inputs is drawn anew.
UserInput ==
    /\ script = "done"
    /\ \E name \in WidgetNames :
        \E v \in NumberInput(name) :
            /\ v # glob[name]
            /\ glob' = [glob EXCEPT ![name] = v]
    /\ script' = "L308"
    /\ view' = Blank
    /\ UNCHANGED frames

\* Lines 308-312: the guard holds, the script calls the function.
\* int(days_outstanding) is applied to the int the integer widget returns.
ScriptCall ==
    /\ script = "L308"
    /\ InvoiceGuard(glob)
    /\ frames' = [frames EXCEPT !["ui"] = Bind(CallArgs(glob))]
    /\ script' = "L309"
    /\ UNCHANGED <<glob, view>>

\* Lines 418-419: the guard fails, st.info and no call.
ScriptWarn ==
    /\ script = "L308"
    /\ ~InvoiceGuard(glob)
    /\ view' = Info
    /\ script' = "done"
    /\ UNCHANGED <<glob, frames>>

\* Lines 315-415: the call has returned, the script renders the result.
ScriptRender ==
    /\ script = "L309"
    /\ frames["ui"].pc = "returned"
    /\ view' = Dashboard(frames["ui"].result)
    /\ frames' = [frames EXCEPT !["ui"] = IdleFrame]
    /\ script' = "done"
    /\ UNCHANGED glob

\* A caller other than the script calls the function.
Call(c, calls) ==
    /\ frames[c].pc = "idle"
    /\ \E call \in calls : frames' = [frames EXCEPT ![c] = Bind(call)]
    /\ UNCHANGED <<glob, script, view>>

\* The caller is done with the outcome of its call (the dict, or the exception).
Release(c) ==
    /\ frames[c].pc \in {"returned", "raised"}
    /\ frames' = [frames EXCEPT ![c] = IdleFrame]
    /\ UNCHANGED <<glob, script, view>>

\* A run of the script rebinds a module-level name while other callers call.
Rebind(name) ==
    /\ \E v \in NumberInput(name) :
        /\ v # glob[name]
        /\ glob' = [glob EXCEPT ![name] = v]
    /\ UNCHANGED <<frames, script, view>>

\* Lines 19-22.
Rates(c) ==
    /\ frames[c].pc = "L19"
    /\ frames' = [frames EXCEPT ![c] = ExecRates(frames[c], glob)]
    /\ UNCHANGED <<glob, script, view>>

\* Lines 24-25.
Base(c) ==
    /\ frames[c].pc = "L24"
    /\ frames' = [frames EXCEPT ![c] = ExecBase(frames[c], glob)]
    /\ UNCHANGED <<glob, script, view>>

\* Line 27.
Interest(c) ==
    /\ frames[c].pc = "L27"
    /\ frames' = [frames EXCEPT ![c] = ExecInterest(frames[c], glob)]
    /\ UNCHANGED <<glob, script, view>>

\* Lines 29-30.
Fees(c) ==
    /\ frames[c].pc = "L29"
    /\ frames' = [frames EXCEPT ![c] = ExecFees(frames[c], glob)]
    /\ UNCHANGED <<glob, script, view>>

\* Lines 32-33.
Totals(c) ==
    /\ frames[c].pc = "L32"
    /\ frames' = [frames EXCEPT ![c] = ExecTotals(frames[c], glob)]
    /\ UNCHANGED <<glob, script, view>>

\* Lines 35-38.
MarginEaten(c) ==
    /\ frames[c].pc = "L35"
    /\ frames' = [frames EXCEPT ![c] = ExecMarginEaten(frames[c], glob)]
    /\ UNCHANGED <<glob, script, view>>

\* Line 40.
CostPct(c) ==
    /\ frames[c].pc = "L40"
    /\ frames' = [frames EXCEPT ![c] = ExecCostPct(frames[c], glob)]
    /\ UNCHANGED <<glob, script, view>>

\* Lines 42-45.
Annualized(c) ==
    /\ frames[c].pc = "L42"
    /\ frames' = [frames EXCEPT ![c] = ExecAnnualized(frames[c], glob)]
    /\ UNCHANGED <<glob, script, view>>

\* Lines 47-65.
Return(c) ==
    /\ frames[c].pc = "L47"
    /\ frames' = [frames EXCEPT ![c] = ExecReturn(frames[c], glob)]
    /\ UNCHANGED <<glob, script, view>>

\* The Streamlit application.
Next ==
    \/ UserInput
    \/ ScriptCall
    \/ ScriptWarn
    \/ Rates("ui")
    \/ Base("ui")
    \/ Interest("ui")
    \/ Fees("ui")
    \/ Totals("ui")
    \/ MarginEaten("ui")
    \/ CostPct("ui")
    \/ Annualized("ui")
    \/ Return("ui")
    \/ ScriptRender

Spec == Init /\ [][Next]_vars

\* The function called directly, with any arguments.
NextCore ==
    \/ Call("a", DirectCalls)
    \/ Release("a")
    \/ Rates("a")
    \/ Base("a")
    \/ Interest("a")
    \/ Fees("a")
    \/ Totals("a")
    \/ MarginEaten("a")
    \/ CostPct("a")
    \/ Annualized("a")
    \/ Return("a")

SpecCore == Init /\ [][NextCore]_vars

\* Two callers in interleaved calls, the module-level names changing meanwhile.
NextCallers ==
    \/ \E c \in {"a", "b"} : Call(c, PairCalls)
    \/ \E c \in {"a", "b"} : Release(c)
    \/ \E c \in {"a", "b"} : Rates(c)
    \/ \E c \in {"a", "b"} : Base(c)
    \/ \E c \in {"a", "b"} : Interest(c)
    \/ \E c \in {"a", "b"} : Fees(c)
    \/ \E c \in {"a", "b"} : Totals(c)
    \/ \E c \in {"a", "b"} : MarginEaten(c)
    \/ \E c \in {"a", "b"} : CostPct(c)
    \/ \E c \in {"a", "b"} : Annualized(c)
    \/ \E c \in {"a", "b"} : Return(c)
    \/ Rebind("fixed_fee")

SpecCallers == Init /\ [][NextCallers]_vars

----------------------------------------------------------------------------
(* Properties *)

Returned == {c \in Callers : frames[c].pc = "returned"}

Called == {c \in Callers : frames[c].pc # "idle"}

Positive(x) == x.n > 0 /\ x.d > 0

Negative(x) == x.n < 0 /\ x.d > 0

\* x = y + z and x = y - z, on numerators and denominators.
IsSum(x, y, z) == x.n * y.d * z.d = x.d * (y.n * z.d + z.n * y.d)

IsDifference(x, y, z) == x.n * y.d * z.d = x.d * (y.n * z.d - z.n * y.d)

\* C1: every returned mapping has total_financing_cost = interest_cost +
\* total_fees and net_margin_after_financing = gross_margin_value -
\* total_financing_cost; the net margin is not clamped at zero.
C1_CostIdentities ==
    \A c \in Returned :
        LET r == frames[c].result
        IN  /\ IsSum(r.total_financing_cost, r.interest_cost, r.total_fees)
            /\ IsDifference(r.net_margin_after_financing, r.gross_margin_value,
                            r.total_financing_cost)

\* A call with non-negative inputs has returned a negative net margin.
C1_Witness ==
    \E c \in Returned :
        /\ frames[c].args.days_outstanding >= 0
        /\ Negative(frames[c].result.net_margin_after_financing)

\* C2: a call with days_outstanding <= 0 and invoice_amount > 0 returns
\* interest_cost = 0 and effective_annualized_cost_pct = 0.
C2_ZeroHorizon ==
    \A c \in Returned :
        (/\ frames[c].args.days_outstanding <= 0
         /\ Positive(frames[c].args.invoice_amount))
        => /\ frames[c].result.interest_cost = Float(0)
           /\ frames[c].result.effective_annualized_cost_pct = Float(0)

\* The outcome of the same call with days_outstanding replaced by d.
WithDays(c, d) == Run([frames[c].call EXCEPT !.days_outstanding = d], glob)

LaterCostsMore(c, d) ==
    LET r1 == frames[c].result
        r2 == WithDays(c, d).result
    IN  /\ WithDays(c, d).pc = "returned"
        /\ RLess(r1.interest_cost, r2.interest_cost)
        /\ RLess(r1.total_financing_cost, r2.total_financing_cost)
        /\ RLess(r2.net_margin_after_financing, r1.net_margin_after_financing)

\* C3 as stated: of two calls that differ only in days_outstanding, with
\* annual_interest_rate_pct > 0, the one with more days has the strictly larger
\* interest_cost and total_financing_cost and the smaller net margin.
C3_DaysMonotoneAsStated ==
    \A c \in Returned :
        Positive(frames[c].args.annual_interest_rate_pct)
        => \A d \in DayCounts :
               d > frames[c].args.days_outstanding => LaterCostsMore(c, d)

\* C3 as amended: the same, for calls with advance_rate_pct > 0 as well (and
\* invoice_amount > 0, without which no call returns).
C3_DaysMonotone ==
    \A c \in Returned :
        (/\ Positive(frames[c].args.annual_interest_rate_pct)
         /\ Positive(frames[c].args.advance_rate_pct)
         /\ Positive(frames[c].args.invoice_amount))
        => \A d \in DayCounts :
               d > frames[c].args.days_outstanding => LaterCostsMore(c, d)

\* A call with a positive rate and a positive principal has returned, and a
\* longer horizon exists to compare it with.
C3_Witness ==
    \E c \in Returned :
        /\ Positive(frames[c].args.annual_interest_rate_pct)
        /\ Positive(frames[c].result.principal_borrowed)
        /\ frames[c].args.days_outstanding = 30
        /\ 60 \in DayCounts

\* C4: the script calls the function only with invoice_amount > 0; with
\* invoice_amount <= 0 it shows the st.info message and makes no call, so the
\* call never raises on the division by invoice_amount.
C4_CallOnlyWithPositiveInvoice ==
    /\ frames["ui"].pc # "idle" => Positive(frames["ui"].args.invoice_amount)
    /\ frames["ui"].pc # "raised"
    /\ script = "L309" => Positive(glob.invoice_amount)
    /\ (script = "done" /\ ~Positive(glob.invoice_amount))
           => (view = Info /\ frames["ui"].pc = "idle")
    /\ view.kind = "dashboard" => Positive(view.result.invoice_amount)

\* After several changes of the inputs the invoice amount is 0 and the script
\* has shown the message.
C4_Witness ==
    /\ script = "done"
    /\ view = Info
    /\ glob.invoice_amount = Float(0)
    /\ glob.days_outstanding # WidgetDefaults.days_outstanding
    /\ glob.margin_pct # WidgetDefaults.margin_pct

\* C5: a call with margin_pct = 0 and invoice_amount > 0 raises nothing and
\* returns gross_margin_value = 0 and margin_eaten_pct_of_margin = 0, whatever
\* the financing cost.
C5_DegenerateMargin ==
    \A c \in Called :
        (/\ frames[c].args.margin_pct = Float(0)
         /\ Positive(frames[c].args.invoice_amount))
        => /\ frames[c].pc # "raised"
           /\ frames[c].pc = "returned"
                  => /\ frames[c].result.gross_margin_value = Float(0)
                     /\ frames[c].result.margin_eaten_pct_of_margin = Float(0)

\* A call with no margin and a financing cost above 300 has returned.
C5_Witness ==
    \E c \in Returned :
        /\ frames[c].args.margin_pct = Float(0)
        /\ RLess(Float(300), frames[c].result.total_financing_cost)

\* C6: a call with invoice_amount > 0 never raises, and every statement short
\* of the return leads on to the next.
C6_NoFailureMode ==
    \A c \in Called :
        Positive(frames[c].args.invoice_amount)
        => /\ frames[c].pc # "raised"
           /\ ~Finished(frames[c]) => Exec(frames[c], glob).pc # frames[c].pc

\* A call with margin_pct = 0 and a negative days_outstanding has returned.
C6_Witness ==
    \E c \in Returned :
        /\ frames[c].args.margin_pct = Float(0)
        /\ frames[c].args.days_outstanding < 0

ScenarioA ==
    [annual_interest_rate_pct |-> Float(18),
     invoice_amount           |-> Float(10000),
     days_outstanding         |-> 60,
     margin_pct               |-> Float(25),
     advance_rate_pct         |-> Float(80),
     arrangement_fee_pct      |-> Float(1),
     fixed_fee                |-> Float(0)]

\* The reference formulas, each from the arguments alone.
RefPrincipal(p) == RDiv(RMul(p.invoice_amount, p.advance_rate_pct), Float(100))

RefGrossMargin(p) == RDiv(RMul(p.invoice_amount, p.margin_pct), Float(100))

RefInterest(p) ==
    RDiv(RMul(RMul(RefPrincipal(p), p.annual_interest_rate_pct),
              Float(p.days_outstanding)),
         Float(36500))

RefFees(p) ==
    RAdd(RDiv(RMul(p.invoice_amount, p.arrangement_fee_pct), Float(100)),
         p.fixed_fee)

RefCostPct(p) ==
    RDiv(RMul(RAdd(RefInterest(p), RefFees(p)), Float(100)), p.invoice_amount)

RefAnnualized(p) ==
    RDiv(RMul(RefCostPct(p), Float(365)), Float(p.days_outstanding))

\* C7: with invoice_amount > 0 and days_outstanding > 0 the returned values
\* are those of the reference formulas; Scenario A returns principal 8000,
\* gross margin 2500, total_fees 100 and interest_cost 8000 * 0.18 * 60 / 365.
C7_ReferenceFormulas ==
    \A c \in Returned :
        LET p == frames[c].args
            r == frames[c].result
        IN  /\ (Positive(p.invoice_amount) /\ p.days_outstanding > 0)
                => /\ r.principal_borrowed = RefPrincipal(p)
                   /\ r.gross_margin_value = RefGrossMargin(p)
                   /\ r.interest_cost = RefInterest(p)
                   /\ r.total_fees = RefFees(p)
                   /\ r.margin_eaten_value = r.total_financing_cost
                   /\ r.financing_cost_pct_of_invoice = RefCostPct(p)
                   /\ r.effective_annualized_cost_pct = RefAnnualized(p)
            /\ frames[c].call = ScenarioA
                => /\ r.principal_borrowed = Float(8000)
                   /\ r.gross_margin_value = Float(2500)
                   /\ r.total_fees = Float(100)
                   /\ r.interest_cost.n * 36500 = 8000 * 18 * 60 * r.interest_cost.d

\* The call of Scenario A has returned.
C7_Witness == \E c \in Returned : frames[c].call = ScenarioA

InputKeys ==
    {"invoice_amount", "annual_interest_rate_pct", "days_outstanding",
     "margin_pct", "advance_rate_pct", "arrangement_fee_pct", "fixed_fee"}

MetricKeys ==
    {"principal_borrowed", "gross_margin_value", "interest_cost", "total_fees",
     "total_financing_cost", "net_margin_after_financing", "margin_eaten_value",
     "margin_eaten_pct_of_margin", "financing_cost_pct_of_invoice",
     "effective_annualized_cost_pct"}

OrDefault(v, default) == IF v = Omitted THEN default ELSE v

\* C8: the returned mapping has exactly 17 keys, the seven inputs echoed as
\* passed (an omitted advance_rate_pct, arrangement_fee_pct or fixed_fee as
\* 80, 0 and 0) and the ten metrics.
C8_SeventeenKeys ==
    \A c \in Returned :
        LET r == frames[c].result
            a == frames[c].call
        IN  /\ DOMAIN r = InputKeys \cup MetricKeys
            /\ Cardinality(DOMAIN r) = 17
            /\ r.invoice_amount = a.invoice_amount
            /\ r.annual_interest_rate_pct = a.annual_interest_rate_pct
            /\ r.days_outstanding = a.days_outstanding
            /\ r.margin_pct = a.margin_pct
            /\ r.advance_rate_pct = OrDefault(a.advance_rate_pct, Float(80))
            /\ r.arrangement_fee_pct = OrDefault(a.arrangement_fee_pct, Float(0))
            /\ r.fixed_fee = OrDefault(a.fixed_fee, Float(0))
            /\ \A k \in MetricKeys : IsNumber(r[k])

\* A call that omitted the three optional arguments has returned.
C8_Witness ==
    \E c \in Returned :
        /\ frames[c].call.advance_rate_pct = Omitted
        /\ frames[c].call.arrangement_fee_pct = Omitted
        /\ frames[c].call.fixed_fee = Omitted

\* C9: two calls with the same parameters end the same way with the same
\* result, whatever calls came before, however the callers' statements
\* interleave, whatever the module-level names hold.
C9_SameParametersSameResult ==
    \A c1, c2 \in Callers :
        (/\ frames[c1].pc \in {"returned", "raised"}
         /\ frames[c2].pc \in {"returned", "raised"}
         /\ frames[c1].args = frames[c2].args)
        => /\ frames[c1].pc = frames[c2].pc
           /\ frames[c1].result = frames[c2].result

\* Two callers hold results of calls with the same parameters, whose fixed_fee
\* is not the one the module-level name holds.
C9_Witness ==
    /\ frames["a"].pc = "returned"
    /\ frames["b"].pc = "returned"
    /\ frames["a"].args = frames["b"].args
    /\ frames["a"].call # frames["b"].call
    /\ frames["a"].args.fixed_fee # glob.fixed_fee

\* C10: with gross_margin_value > 0 the net margin is negative exactly when
\* margin_eaten_pct_of_margin > 100, and zero exactly when it equals 100.
C10_ErosionAgreesWithNetMargin ==
    \A c \in Returned :
        LET r == frames[c].result
        IN  Positive(r.gross_margin_value)
            => /\ Negative(r.net_margin_after_financing)
                    <=> RLess(Float(100), r.margin_eaten_pct_of_margin)
               /\ r.net_margin_after_financing = Float(0)
                    <=> r.margin_eaten_pct_of_margin = Float(100)

\* A call whose financing cost exceeds a positive gross margin has returned.
C10_Witness ==
    \E c \in Returned :
        /\ Positive(frames[c].result.gross_margin_value)
        /\ Negative(frames[c].result.net_margin_after_financing)
        /\ RLess(Float(100), frames[c].result.margin_eaten_pct_of_margin)

\* A call whose financing cost equals a positive gross margin has returned.
C10_BreakEven ==
    \E c \in Returned :
        /\ Positive(frames[c].result.gross_margin_value)
        /\ frames[c].result.net_margin_after_financing = Float(0)

====
